---- MODULE Spec2Model ----
(***************************************************************************)
(* IPFS document loaders and FAISS transfer utility:                       *)
(*   langchain/document_loaders/ipfs_file.py       (IPFSFileDataLoader)    *)
(*   langchain/document_loaders/ipfs_directory.py  (IPFSDirectoryDataLoader)*)
(*   langchain/utilities/ipfs.py                   (IPFSFAISSUtils)        *)
(* The program is sequential.  Every HTTP request is one step of the model *)
(* whose response is chosen by the environment (the IPFS server).          *)
(* Strings whose characters the code inspects (MIME types, link names,     *)
(* temporary file names) are sequences of one-character strings.           *)
(***************************************************************************)
EXTENDS Integers, Sequences, FiniteSets, TLC

----------------------------------------------------------------------------
(* Bounds of the model *)

\* most links in the root node of the directory
MaxLinks == 2
\* most links in the sub-directory node
MaxSubLinks == 1
\* most failing responses the server gives during one directory load
MaxFaults == 2
\* rows of the CSV content served by the server
CsvRows == 2
\* most vectors (documents) of a vector store
MaxVecs == 2
\* most vector-store transfers in one run
MaxTransfers == 2
\* most links of the directory the server holds before any transfer
MaxDirLinks == 3

(* Program constants *)

\* max_retries class attribute (the same in the three classes)
max_retries == 5
\* retry_delay class attribute (the same in the three classes)
retry_delay == 1

----------------------------------------------------------------------------
(* Strings *)

S_pdf == <<"p", "d", "f">>
S_csv == <<"c", "s", "v">>
S_json == <<"j", "s", "o", "n">>
S_text == <<"t", "e", "x", "t">>
S_index == <<"i", "n", "d", "e", "x">>
S_docstore == <<"d", "o", "c", "s", "t", "o", "r", "e">>
M_pdf == <<"a", "p", "p", "l", "i", "c", "a", "t", "i", "o", "n", "/", "p", "d", "f">>
M_csv == <<"t", "e", "x", "t", "/", "c", "s", "v">>
M_json == <<"a", "p", "p", "l", "i", "c", "a", "t", "i", "o", "n", "/", "j", "s", "o", "n">>
M_plain == <<"t", "e", "x", "t", "/", "p", "l", "a", "i", "n">>
M_png == <<"i", "m", "a", "g", "e", "/", "p", "n", "g">>
M_xpdf == <<"t", "e", "x", "t", "/", "x", "-", "p", "d", "f">>
M_csvjson == <<"a", "p", "p", "l", "i", "c", "a", "t", "i", "o", "n", "/", "c", "s", "v", "+", "j", "s", "o", "n">>
M_octet == <<"a", "p", "p", "l", "i", "c", "a", "t", "i", "o", "n", "/", "o", "c", "t", "e", "t", "-", "s", "t", "r", "e", "a", "m">>
IndexSuffix == <<".", "i", "n", "d", "e", "x">>
DocstoreSuffix == <<".", "d", "o", "c", "s", "t", "o", "r", "e">>
TmpPrefix == <<"t", "m", "p">>

\* the MIME strings select_reader is applied to
Mimes == {M_pdf, M_csv, M_json, M_plain, M_png, M_xpdf, M_csvjson, M_octet}

\* Python's `sub in s` on strings
Contains(s, sub) ==
    \E i \in 1..(Len(s) - Len(sub) + 1) : SubSeq(s, i, i + Len(sub) - 1) = sub

----------------------------------------------------------------------------
(* ipfs_file.py: reader selection *)

\* the raise of select_reader
Unsupported == "Unsupported file type"

\* select_reader with the test for "text" moved before the one for "csv"
select_reader_m(file_type) ==
    IF Contains(file_type, S_pdf) THEN "pdf_reader"
    ELSE IF Contains(file_type, S_text) THEN "txt_reader"
    ELSE IF Contains(file_type, S_csv) THEN "csv_reader"
    ELSE IF Contains(file_type, S_json) THEN "json_reader"
    ELSE Unsupported

select_reader(file_type) ==
    IF Contains(file_type, S_pdf) THEN "pdf_reader"
    ELSE IF Contains(file_type, S_csv) THEN "csv_reader"
    ELSE IF Contains(file_type, S_json) THEN "json_reader"
    ELSE IF Contains(file_type, S_text) THEN "txt_reader"
    ELSE Unsupported

\* csv_reader returns a list of Documents, the other readers a str
ReturnsList(reader) == reader = "csv_reader"

----------------------------------------------------------------------------
(* The IPFS server: a link structure of three nodes.  The root "R" links to *)
(* the node "A" and to the leaf "B"; "A" links to "B".  A link is a record  *)
(* of the hash under Hash./ (None when the link has none) and the Name.     *)

None == "None"
Hashes == {"R", "A", "B"}

N_d == <<"d">>
N_ad == <<"a", ".", "d">>
N_fx == <<"f", ".", "x">>
N_gx == <<"g", ".", "x">>
N_nx == <<"n", ".", "x">>

RootLinkOpts ==
    { [hash |-> "A", name |-> N_d], [hash |-> "A", name |-> N_ad],
      [hash |-> "B", name |-> N_fx], [hash |-> None, name |-> N_nx] }

SubLinkOpts ==
    { [hash |-> "B", name |-> N_gx], [hash |-> "B", name |-> <<>>] }

SeqsUpTo(S, n) == UNION { [1..k -> S] : k \in 0..n }

\* the link structures the server may hold (acyclic by construction)
Dags ==
    { [R |-> r, A |-> a, B |-> <<>>] :
        r \in SeqsUpTo(RootLinkOpts, MaxLinks), a \in SeqsUpTo(SubLinkOpts, MaxSubLinks) }

\* the type python-magic reports for the bytes stored under a hash
MimeOf(h) == IF h = "B" THEN M_csv ELSE IF h = "A" THEN M_plain ELSE M_json

\* HTTP outcomes: a status code, or "conn" for requests.exceptions.ConnectionError
Responses == {"200", "204", "500", "conn"}
\* requests.Response.ok: status below 400
Ok(resp) == resp \in {"200", "204"}
\* response.status_code == 200
Is200(resp) == resp = "200"

----------------------------------------------------------------------------
(* utilities/ipfs.py: vector stores, their serialised forms and the        *)
(* temporary files.  A vector store is the vector count of its index       *)
(* (ntotal), its index_to_docstore_id and the identifiers in its docstore. *)
(* A link of a stored directory carries its name and, in place of the     *)
(* content hash, the content the hash addresses.                           *)

\* the vector store of n documents
VectorStore(n) ==
    [ntotal |-> n, i2d |-> [i \in 1..n |-> n - i + 1], docs |-> 1..n]
NoStore == [ntotal |-> -1, i2d |-> <<>>, docs |-> {}]

\* faiss.write_index(index, index_filename): the bytes of the index file
write_index(v) == [fmt |-> "faiss", ntotal |-> v.ntotal, i2d |-> <<>>, docs |-> {}]
\* pickle.dump(stores, tmp_docstore_file): the bytes of the docstore file
pickle_dump(v) == [fmt |-> "pickle", ntotal |-> -1, i2d |-> v.i2d, docs |-> v.docs]
\* the body of a response with a failing status
ErrorBody == [fmt |-> "error", ntotal |-> -1, i2d |-> <<>>, docs |-> {}]
\* a local variable that was never assigned
Unbound == [fmt |-> "unbound", ntotal |-> -1, i2d |-> <<>>, docs |-> {}]

\* faiss.read_index and pickle.loads accept only bytes of their own format
Readable(bytes) == bytes.fmt = "faiss"
Unpicklable(bytes) == bytes.fmt = "pickle"

\* FAISS(embedding_function=..., index=..., index_to_docstore_id=..., docstore=...)
FAISS(index_bytes, docstore_bytes) ==
    [ntotal |-> index_bytes.ntotal, i2d |-> docstore_bytes.i2d, docs |-> docstore_bytes.docs]

\* the random part of a tempfile.NamedTemporaryFile name: eight characters
\* out of a-z, 0-9 and _
R_plain == <<"a", "1", "b", "2", "c", "3", "d", "4">>
R_index == <<"z", "i", "n", "d", "e", "x", "_", "0">>
Rands == {R_plain, R_index}

\* NamedTemporaryFile(delete=False, suffix=...).name, without the directory
TempName(rand, suffix) == TmpPrefix \o rand \o suffix

\* the directory the server holds at the start: k links, an index file and
\* a docstore file in turn
OtherDir(k) ==
    [i \in 1..k |->
       IF i % 2 = 1
       THEN [name |-> TempName(R_plain, IndexSuffix), hash |-> write_index(VectorStore(i))]
       ELSE [name |-> TempName(R_plain, DocstoreSuffix), hash |-> pickle_dump(VectorStore(i - 1))]]

\* the assertion letting more than two links through
TwoLinks_m(links) == Len(links) >= 2

\* assert len(links) == 2
TwoLinks(links) == Len(links) = 2

\* for link in links: if key in link['Name']: x_hash = link['Hash']['/']
\* the value of x_hash after the loop
PickHash(links, key) ==
    LET S == { i \in 1..Len(links) : Contains(links[i].name, key) }
    IN  IF S = {} THEN Unbound
        ELSE links[CHOOSE i \in S : \A j \in S : j <= i].hash

----------------------------------------------------------------------------
(* State *)

VARIABLES
    op,        \* the operation the caller invoked
    pc,        \* position of the program in it
    err,       \* the exception that left the operation, "none" when none
    cls,       \* the class whose check_daemon_running runs
    arg,       \* the argument: a MIME string (select_reader) or a hash
    attempt,   \* the loop variable i of the current retry loop
    trace,     \* HTTP outcomes and sleeps of the current retrying fetch
    slept,     \* seconds the current fetch has slept
    fst,       \* state of the current fetch: running, returned, raised, exhausted
    reader,    \* the value select_reader returned
    ret,       \* the value IPFSFileDataLoader.load returned
    dag,       \* the link structure held by the server
    stack,     \* activation records of recursive_dag_get_helper
    all_files, \* all_files of recursive_dag_get
    visits,    \* calls of recursive_dag_get_helper, by hash
    requested, \* hashes a dag/get request was sent for
    faulty,    \* failing responses met by this directory load
    fidx,      \* position of load's for loop in all_files
    skipped,   \* positions of all_files whose load raised and was skipped
    results,   \* results of IPFSDirectoryDataLoader.load
    store,     \* the directories held by the server; a cid is a position
    disk,      \* names of the temporary files on the local disk
    xfers,     \* vector-store transfers started
    vop,       \* the transfer running or last run: none, send, get
    vcid,      \* the cid of the transfer: returned by send, passed to get
    sent,      \* the cid the last successful send returned, 0 when none
    index_hash,    \* local index_hash of get_vectorstore_from_ipfs
    docstore_hash, \* local docstore_hash of get_vectorstore_from_ipfs
    index_response,\* content of index_response
    downloads, \* cat requests sent by the transfer
    tmpmade,   \* temporary files created by the transfer
    allok,     \* every response of the transfer had a success status
    vsIn,      \* the vector store passed to send_vectorstore_to_ipfs
    vsOut,     \* the vector store get_vectorstore_from_ipfs returned
    use_infura,\* use_infura of the loader the caller constructed
    url,       \* base URL of the last request a loader sent, "none" before it
    auth       \* whether that request carried the Infura credentials

vars == <<op, pc, err, cls, arg, attempt, trace, slept, fst, reader, ret,
          dag, stack, all_files, visits, requested, faulty, fidx, skipped, results,
          store, disk, xfers, vop, vcid, sent, index_hash, docstore_hash,
          index_response, downloads, tmpmade, allok, vsIn, vsOut,
          use_infura, url, auth>>
vsVars == <<store, disk, xfers, vop, vcid, sent, index_hash, docstore_hash,
            index_response, downloads, tmpmade, allok, vsIn, vsOut>>
loadVars == <<cls, arg, attempt, trace, slept, fst, reader, ret, dag, stack,
              all_files, visits, requested, faulty, fidx, skipped, results,
              use_infura, url, auth>>

NoDag == [R |-> <<>>, A |-> <<>>, B |-> <<>>]
NoRet == [isList |-> FALSE, docs |-> <<>>]
NoSource == <<>>

\* a link structure of at most one link, from the root
OneLinkDag == Len(dag.R) <= 1 /\ dag.A = <<>>

\* the loaders are constructed in local or in hosted mode (the directory
\* loader in hosted mode over the structures of at most one link)
Init ==
    /\ op \in {"check", "select", "fileload", "dagget", "load", "vs"}
    /\ pc = (CASE op = "check" -> "version" [] op = "select" -> "select"
               [] op = "fileload" -> "cat" [] op \in {"dagget", "load"} -> "dag"
               [] op = "vs" -> "idle")
    /\ err = "none"
    /\ cls \in (IF op = "check" THEN {"dir", "file", "faiss"}
                ELSE IF op \in {"dagget", "load"} THEN {"dir"} ELSE {"file"})
    /\ arg \in (CASE op = "select" -> Mimes [] op = "fileload" -> {"A", "B"}
                  [] op = "dagget" -> {"R", "A"} [] OTHER -> {"R"})
    /\ url = "none" /\ auth = FALSE
    /\ attempt = 0 /\ trace = <<>> /\ slept = 0 /\ fst = "running"
    /\ reader = "none" /\ ret = NoRet
    /\ dag \in (IF op = "load" THEN Dags ELSE {NoDag})
    /\ (\A i \in 1..Len(dag.R) : dag.R[i].hash # "A") => dag.A = <<>>
    /\ use_infura \in (IF op \in {"check", "fileload", "dagget"} \/ (op = "load" /\ OneLinkDag)
                       THEN BOOLEAN ELSE {FALSE})
    /\ stack = (IF op \in {"dagget", "load"}
                THEN <<[hash |-> arg, links |-> <<>>, idx |-> 0]>> ELSE <<>>)
    /\ all_files = <<>>
    /\ visits = [h \in Hashes |-> IF op = "load" /\ h = "R" THEN 1 ELSE 0]
    /\ requested = {}
    /\ faulty = 0 /\ fidx = 0 /\ skipped = {} /\ results = <<>>
    /\ store \in (IF op = "vs" THEN { <<OtherDir(k)>> : k \in 0..MaxDirLinks } ELSE {<<>>})
    /\ vsIn \in (IF op = "vs" THEN { VectorStore(n) : n \in 0..MaxVecs } ELSE {NoStore})
    /\ disk = {} /\ xfers = 0 /\ vop = "none" /\ vcid = 0 /\ sent = 0
    /\ index_hash = Unbound /\ docstore_hash = Unbound /\ index_response = Unbound
    /\ downloads = 0 /\ tmpmade = {} /\ allok = TRUE /\ vsOut = NoStore

----------------------------------------------------------------------------
(* The retry loop shared by the fetch operations:                          *)
(*   for i in range(self.max_retries): try: post ... except ConnectionError: sleep *)

\* the trace and loop variable seen by the fetch that is starting or running
CurTrace == IF fst = "running" THEN trace ELSE <<>>
CurAttempt == IF fst = "running" THEN attempt ELSE 0
CurSlept == IF fst = "running" THEN slept ELSE 0

\* the loop running one iteration more
LoopOver_long(i) == i + 1 >= max_retries + 1

\* the loop running one iteration short
LoopOver_m(i) == i + 1 >= max_retries - 1

\* for i in range(self.max_retries): the loop is over after iteration i
LoopOver(i) == i + 1 >= max_retries

\* except requests.exceptions.ConnectionError: time.sleep(self.retry_delay)
OnConnectionError(tr) == tr \o <<"conn", "sleep">>

\* one pass of a loop that raises on a failing status (daemon checks, get_dag_get)
RaisingPass(resp, success) ==
    IF resp = "conn"
    THEN [attempt |-> CurAttempt + 1, trace |-> OnConnectionError(CurTrace),
          slept |-> CurSlept + retry_delay,
          fst |-> IF LoopOver(CurAttempt) THEN "exhausted" ELSE "running"]
    ELSE [attempt |-> CurAttempt, trace |-> Append(CurTrace, resp), slept |-> CurSlept,
          fst |-> IF success THEN "returned" ELSE "raised"]

\* one pass of IPFSFileDataLoader.load's loop: a failing status is logged and
\* the loop goes on; select_reader raising leaves the loop
LoadPass(resp, file_type) ==
    IF resp = "conn"
    THEN [attempt |-> CurAttempt + 1, trace |-> OnConnectionError(CurTrace),
          slept |-> CurSlept + retry_delay,
          fst |-> IF LoopOver(CurAttempt) THEN "exhausted" ELSE "running"]
    ELSE IF Ok(resp)
    THEN [attempt |-> CurAttempt, trace |-> Append(CurTrace, resp), slept |-> CurSlept,
          fst |-> IF select_reader(file_type) = Unsupported THEN "raised" ELSE "returned"]
    ELSE [attempt |-> CurAttempt + 1, trace |-> Append(CurTrace, resp), slept |-> CurSlept,
          fst |-> IF LoopOver(CurAttempt) THEN "exhausted" ELSE "running"]

\* the test of the response in check_daemon_running: status_code == 200 in
\* ipfs_directory.py, response.ok in ipfs_file.py and utilities/ipfs.py
DaemonUp(c, resp) == IF c = "dir" THEN Is200(resp) ELSE Ok(resp)

\* the fault budget of a directory load: over a structure of more than one
\* link the server gives at most MaxFaults failing responses during the load;
\* over a structure of at most one link, and in the single fetch operations,
\* the server answers every request as it likes
MayFail == op # "load" \/ OneLinkDag \/ faulty < MaxFaults
Charge(failed) == IF op = "load" /\ failed THEN faulty + 1 ELSE faulty

----------------------------------------------------------------------------
(* The endpoint of a request of a loader.  A loader constructed in hosted  *)
(* mode holds its key and secret (the constructor raises without them).    *)

\* base_url and infura_base_url class attributes
base_url == "http://127.0.0.1:5001"
infura_base_url == "https://ipfs.infura.io:5001"

\* if self.use_infura: full_url = f"{self.infura_base_url}/..." else: base_url
Endpoint(infura) == IF infura THEN infura_base_url ELSE base_url

\* auth=auth if self.use_infura else None
Credentials(infura) == infura

\* use_infura of the IPFSFileDataLoader that IPFSDirectoryDataLoader.load
\* constructs: IPFSFileDataLoader() takes the default use_infura=False
InnerUseInfura == FALSE

\* use_infura of the object sending the request at the current position
SenderInfura == IF op = "load" /\ pc \in {"version", "cat"} THEN InnerUseInfura ELSE use_infura

----------------------------------------------------------------------------
(* check_daemon_running: one HTTP request to /api/v0/version.  Run by the   *)
(* constructors, and by IPFSDirectoryDataLoader.load when it constructs its *)
(* IPFSFileDataLoader (ipfs_directory.py line 179).                        *)

check_daemon_running(resp) ==
    LET c == IF op = "load" THEN "file" ELSE cls
        failed == ~DaemonUp(c, resp)
        p == RaisingPass(resp, DaemonUp(c, resp))
    IN  /\ pc = "version"
        /\ failed => MayFail
        /\ attempt' = p.attempt /\ trace' = p.trace /\ slept' = p.slept /\ fst' = p.fst
        /\ faulty' = Charge(failed)
        /\ pc' = (CASE p.fst = "running" -> "version"
                    [] p.fst = "returned" ->
                         IF op = "load" /\ all_files # <<>> THEN "cat" ELSE "done"
                    [] OTHER -> "raised")
        /\ err' = (IF p.fst \in {"raised", "exhausted"} THEN "daemon" ELSE err)
        /\ fidx' = (IF op = "load" /\ p.fst = "returned" THEN 1 ELSE fidx)
        /\ UNCHANGED <<op, cls, arg, reader, ret, dag, stack, all_files, visits,
                       requested, skipped, results>>
        /\ url' = Endpoint(SenderInfura) /\ auth' = Credentials(SenderInfura)
        /\ UNCHANGED use_infura
        /\ UNCHANGED vsVars

----------------------------------------------------------------------------
(* IPFSDirectoryDataLoader.recursive_dag_get *)

has_file_extension(name) == Contains(name, <<".">>)

\* the test for a file without the test of the extension
IsFileLink_m(link) == link.hash # None /\ link.name # <<>>

\* if link_hash and link_name and has_file_extension(link_name)
IsFileLink(link) ==
    link.hash # None /\ link.name # <<>> /\ has_file_extension(link.name)

\* if link_hash: recursive_dag_get_helper(link_hash)
Recurses(link) == link.hash # None

\* the helper asking for the outer ipfs_hash in place of its own hash
DagLinks_m(h) == dag["R"]

\* the links walked from the last to the first
DagLinks_rev(h) == [i \in 1..Len(dag[h]) |-> dag[h][Len(dag[h]) + 1 - i]]

\* links = dag_data.get("Links", []) of the response to dag/get for hash h
DagLinks(h) == dag[h]

Top == stack[Len(stack)]
SetTop(f) == [stack EXCEPT ![Len(stack)] = f]

\* get_dag_get: one HTTP request to /api/v0/dag/get for the hash of the
\* innermost call of the helper; on success the helper reads the links
get_dag_get(resp) ==
    LET failed == ~Is200(resp)
        p == RaisingPass(resp, Is200(resp))
    IN  /\ pc = "dag"
        /\ failed => MayFail
        /\ attempt' = p.attempt /\ trace' = p.trace /\ slept' = p.slept /\ fst' = p.fst
        /\ faulty' = Charge(failed)
        /\ requested' = requested \cup {Top.hash}
        /\ stack' = (IF p.fst = "returned"
                     THEN SetTop([Top EXCEPT !.links = DagLinks(Top.hash), !.idx = 1])
                     ELSE stack)
        /\ pc' = (CASE p.fst = "running" -> "dag"
                    [] p.fst = "returned" -> IF op = "load" THEN "links" ELSE "done"
                    [] OTHER -> "raised")
        /\ err' = (CASE p.fst = "raised" -> "dag_status"
                     [] p.fst = "exhausted" -> "dag_exhausted" [] OTHER -> err)
        /\ UNCHANGED <<op, cls, arg, reader, ret, dag, all_files, visits, fidx,
                       skipped, results>>
        /\ url' = Endpoint(SenderInfura) /\ auth' = Credentials(SenderInfura)
        /\ UNCHANGED use_infura
        /\ UNCHANGED vsVars

\* for link in links: the next link; a link with a hash is recursed into
\* first, a link without one only meets the test for a file
link_step ==
    /\ pc = "links"
    /\ Top.idx <= Len(Top.links)
    /\ LET link == Top.links[Top.idx]
       IN  IF Recurses(link)
           THEN /\ stack' = Append(stack, [hash |-> link.hash, links |-> <<>>, idx |-> 0])
                /\ visits' = [visits EXCEPT ![link.hash] = @ + 1]
                /\ pc' = "dag"
                /\ UNCHANGED all_files
           ELSE /\ stack' = SetTop([Top EXCEPT !.idx = @ + 1])
                /\ all_files' = (IF IsFileLink(link)
                                 THEN Append(all_files, <<link.hash, link.name>>)
                                 ELSE all_files)
                /\ UNCHANGED <<visits, pc>>
    /\ UNCHANGED <<op, err, cls, arg, attempt, trace, slept, fst, reader, ret, dag,
                   requested, faulty, fidx, skipped, results>>
    /\ UNCHANGED <<use_infura, url, auth>>
    /\ UNCHANGED vsVars

\* the helper returns: in the caller the link just recursed into meets the
\* test for a file; the outermost return is followed by load's construction
\* of the file loader
helper_return ==
    /\ pc = "links"
    /\ Top.idx > Len(Top.links)
    /\ IF Len(stack) = 1
       THEN /\ stack' = <<>>
            /\ pc' = "version"
            /\ UNCHANGED all_files
       ELSE LET caller == stack[Len(stack) - 1]
                link == caller.links[caller.idx]
            IN  /\ stack' = Append(SubSeq(stack, 1, Len(stack) - 2),
                                   [caller EXCEPT !.idx = @ + 1])
                /\ all_files' = (IF IsFileLink(link)
                                 THEN Append(all_files, <<link.hash, link.name>>)
                                 ELSE all_files)
                /\ UNCHANGED pc
    /\ UNCHANGED <<op, err, cls, arg, attempt, trace, slept, fst, reader, ret, dag,
                   visits, requested, faulty, fidx, skipped, results>>
    /\ UNCHANGED <<use_infura, url, auth>>
    /\ UNCHANGED vsVars

----------------------------------------------------------------------------
(* IPFSFileDataLoader.load, and the body of the for loop of                *)
(* IPFSDirectoryDataLoader.load around it                                  *)

\* Document(page_content=text, metadata={"ipfs_hash": ..., "file_type": ...})
StrDocument(h, file_type) ==
    [isList |-> FALSE,
     docs |-> <<[ipfs_hash |-> h, file_type |-> file_type, index |-> -1,
                 source |-> NoSource]>>]

\* csv_reader's list, one Document a row, with ipfs_hash added by load
RowDocuments(h) ==
    [isList |-> TRUE,
     docs |-> [i \in 1..CsvRows |->
                 [ipfs_hash |-> h, file_type |-> M_csv, index |-> i - 1,
                  source |-> NoSource]]]

\* what IPFSFileDataLoader.load returns for a successful response
Loaded(h, file_type) ==
    IF ReturnsList(select_reader(file_type)) THEN RowDocuments(h)
    ELSE StrDocument(h, file_type)

\* the source set on a single Document only, a list left as it is
WithSource_m(doc, name) ==
    IF doc.isList THEN doc
    ELSE [doc EXCEPT !.docs = [i \in 1..Len(doc.docs) |-> [doc.docs[i] EXCEPT !.source = name]]]

\* doc.metadata["source"] = name, for a Document and for each of a list
WithSource(doc, name) ==
    [doc EXCEPT !.docs = [i \in 1..Len(doc.docs) |-> [doc.docs[i] EXCEPT !.source = name]]]

\* results.append(doc) after a load that returned; the except branch skips
AfterFile(res, loaded, doc, name) ==
    IF loaded THEN Append(res, WithSource(doc, name)) ELSE res

file_load(resp, file_type) ==
    LET h == IF op = "load" THEN all_files[fidx][1] ELSE arg
        failed == ~Ok(resp) \/ select_reader(file_type) = Unsupported
        p == LoadPass(resp, file_type)
        over == p.fst # "running"
    IN  /\ pc = "cat"
        /\ failed => MayFail
        /\ ~Ok(resp) => file_type = MimeOf(h)
        /\ op = "load" => file_type \in {MimeOf(h), M_png}
        /\ attempt' = p.attempt /\ trace' = p.trace /\ slept' = p.slept /\ fst' = p.fst
        /\ faulty' = Charge(failed)
        /\ IF op = "load"
           THEN /\ results' = (IF over
                               THEN AfterFile(results, p.fst = "returned",
                                              Loaded(h, file_type), all_files[fidx][2])
                               ELSE results)
                /\ skipped' = (IF over /\ p.fst # "returned"
                               THEN skipped \cup {fidx} ELSE skipped)
                /\ fidx' = (IF over THEN fidx + 1 ELSE fidx)
                /\ pc' = (IF over /\ fidx + 1 > Len(all_files) THEN "done" ELSE "cat")
                /\ UNCHANGED <<ret, err>>
           ELSE /\ ret' = (IF p.fst = "returned" THEN Loaded(h, file_type) ELSE ret)
                /\ pc' = (CASE p.fst = "running" -> "cat" [] p.fst = "returned" -> "done"
                            [] OTHER -> "raised")
                /\ err' = (CASE p.fst = "raised" -> "unsupported"
                             [] p.fst = "exhausted" -> "file_exhausted" [] OTHER -> err)
                /\ UNCHANGED <<results, fidx, skipped>>
        /\ UNCHANGED <<op, cls, arg, reader, dag, stack, all_files, visits, requested>>
        /\ url' = Endpoint(SenderInfura) /\ auth' = Credentials(SenderInfura)
        /\ UNCHANGED use_infura
        /\ UNCHANGED vsVars

\* a call of select_reader
SelectReader ==
    /\ pc = "select"
    /\ reader' = select_reader(arg)
    /\ pc' = (IF select_reader(arg) = Unsupported THEN "raised" ELSE "done")
    /\ err' = (IF select_reader(arg) = Unsupported THEN "unsupported" ELSE err)
    /\ UNCHANGED <<op, cls, arg, attempt, trace, slept, fst, ret, dag, stack,
                   all_files, visits, requested, faulty, fidx, skipped, results>>
    /\ UNCHANGED <<use_infura, url, auth>>
    /\ UNCHANGED vsVars

----------------------------------------------------------------------------
(* IPFSFAISSUtils.send_vectorstore_to_ipfs: the two temporary files, the   *)
(* one POST to /api/v0/add and what follows it.  The server names each     *)
(* link after the uploaded file and lists the two links in either order.   *)

send_vectorstore_to_ipfs(r1, r2, indexFirst, resp) ==
    LET index_filename == TempName(r1, IndexSuffix)
        docstore_filename == TempName(r2, DocstoreSuffix)
        ilink == [name |-> index_filename, hash |-> write_index(vsIn)]
        dlink == [name |-> docstore_filename, hash |-> pickle_dump(vsIn)]
    IN  /\ pc = "idle" /\ xfers < MaxTransfers
        /\ index_filename \notin disk /\ docstore_filename \notin disk
        /\ xfers' = xfers + 1
        /\ vop' = "send"
        /\ tmpmade' = {index_filename, docstore_filename}
        /\ downloads' = 0
        /\ allok' = Ok(resp)
        /\ IF resp = "conn"
           THEN \* requests.post raises: lines 113 to 116 are not reached
                /\ disk' = disk \cup {index_filename, docstore_filename}
                /\ err' = "conn"
                /\ UNCHANGED <<store, sent, vcid>>
           ELSE IF Ok(resp)
           THEN /\ disk' = disk
                /\ store' = Append(store, IF indexFirst THEN <<ilink, dlink>>
                                          ELSE <<dlink, ilink>>)
                /\ sent' = Len(store) + 1 /\ vcid' = Len(store) + 1
                /\ err' = "none"
           ELSE \* the body holds no line with a Hash: line 118 or 120 raises
                /\ disk' = disk
                /\ err' = "bad_response"
                /\ UNCHANGED <<store, sent, vcid>>
        /\ UNCHANGED <<op, pc, index_hash, docstore_hash, index_response, vsIn, vsOut>>
        /\ UNCHANGED loadVars

(* IPFSFAISSUtils.get_vectorstore_from_ipfs: its three requests *)

\* POST dag/get (line 129), the assertion and the choice of the two hashes
vs_dag_get(cid, resp) ==
    LET links == store[cid]
        ih == PickHash(links, S_index)
        dh == PickHash(links, S_docstore)
    IN  /\ pc = "idle" /\ xfers < MaxTransfers
        /\ xfers' = xfers + 1
        /\ vop' = "get" /\ vcid' = cid
        /\ tmpmade' = {} /\ downloads' = 0 /\ vsOut' = NoStore
        /\ allok' = Ok(resp)
        /\ index_response' = Unbound
        /\ IF resp = "conn"
           THEN /\ err' = "conn" /\ pc' = "idle"
                /\ index_hash' = Unbound /\ docstore_hash' = Unbound
           ELSE IF ~Ok(resp)
           THEN \* response.json()['Links'] raises on the error body
                /\ err' = "bad_response" /\ pc' = "idle"
                /\ index_hash' = Unbound /\ docstore_hash' = Unbound
           ELSE IF ~TwoLinks(links)
           THEN /\ err' = "assert" /\ pc' = "idle"
                /\ index_hash' = Unbound /\ docstore_hash' = Unbound
           ELSE /\ index_hash' = ih /\ docstore_hash' = dh
                \* the URLs are built from both hashes: UnboundLocalError
                /\ err' = (IF ih = Unbound \/ dh = Unbound THEN "unbound" ELSE "none")
                /\ pc' = (IF ih = Unbound \/ dh = Unbound THEN "idle" ELSE "cat_index")
        /\ UNCHANGED <<op, store, disk, sent, vsIn>>
        /\ UNCHANGED loadVars

\* the content the server sends for a cat request
CatBody(hash, resp) == IF Ok(resp) THEN hash ELSE ErrorBody

\* index_response = requests.post(index_url, auth=auth)
vs_cat_index(resp) ==
    /\ pc = "cat_index"
    /\ downloads' = downloads + 1
    /\ allok' = (allok /\ Ok(resp))
    /\ IF resp = "conn"
       THEN /\ err' = "conn" /\ pc' = "idle" /\ UNCHANGED index_response
       ELSE /\ index_response' = CatBody(index_hash, resp)
            /\ pc' = "cat_docstore" /\ UNCHANGED err
    /\ UNCHANGED <<op, store, disk, xfers, vop, vcid, sent, index_hash, docstore_hash,
                   tmpmade, vsIn, vsOut>>
    /\ UNCHANGED loadVars

\* docstore_response = requests.post(docstore_url, auth=auth) and the rest:
\* the temporary index file, read_index, pickle.loads, FAISS(...)
vs_cat_docstore(resp, rand) ==
    LET docstore_response == CatBody(docstore_hash, resp)
        tmp_index_path == TempName(rand, IndexSuffix)
    IN  /\ pc = "cat_docstore"
        /\ downloads' = downloads + 1
        /\ allok' = (allok /\ Ok(resp))
        /\ pc' = "idle"
        /\ IF resp = "conn"
           THEN /\ err' = "conn" /\ UNCHANGED <<disk, tmpmade, vsOut>>
           ELSE /\ tmp_index_path \notin disk
                /\ disk' = disk \cup {tmp_index_path}
                /\ tmpmade' = {tmp_index_path}
                /\ err' = (IF ~Readable(index_response) THEN "read_index"
                           ELSE IF ~Unpicklable(docstore_response) THEN "unpickle"
                           ELSE "none")
                /\ vsOut' = (IF Readable(index_response) /\ Unpicklable(docstore_response)
                             THEN FAISS(index_response, docstore_response) ELSE NoStore)
        /\ UNCHANGED <<op, store, xfers, vop, vcid, sent, index_hash, docstore_hash,
                       index_response, vsIn>>
        /\ UNCHANGED loadVars

----------------------------------------------------------------------------

SendVectorstore ==
    \E r1 \in Rands, r2 \in Rands, indexFirst \in BOOLEAN, resp \in Responses :
        send_vectorstore_to_ipfs(r1, r2, indexFirst, resp)
VsDagGet == \E cid \in 1..Len(store), resp \in Responses : vs_dag_get(cid, resp)
VsCatIndex == \E resp \in Responses : vs_cat_index(resp)
VsCatDocstore == \E resp \in Responses, rand \in Rands : vs_cat_docstore(resp, rand)

CheckDaemon == \E resp \in Responses : check_daemon_running(resp)
GetDag == \E resp \in Responses : get_dag_get(resp)
FileLoad == \E resp \in Responses, file_type \in Mimes : file_load(resp, file_type)

Next ==
    \/ CheckDaemon
    \/ GetDag
    \/ link_step
    \/ helper_return
    \/ FileLoad
    \/ SelectReader
    \/ SendVectorstore
    \/ VsDagGet
    \/ VsCatIndex
    \/ VsCatDocstore

Spec == Init /\ [][Next]_vars

\* the initial states of the runs checked to their end: the loads over the
\* structures whose root has fewer than MaxLinks links, every other
\* operation as in Init
FairInit == Init /\ (op = "load" => Len(dag.R) < MaxLinks)

\* the interpreter runs the program on, and every HTTP request returns a
\* response or raises: a step that can be taken is taken
FairSpec == FairInit /\ [][Next]_vars /\ WF_vars(Next)

----------------------------------------------------------------------------
(* Properties *)

HasPeriod(name) == \E k \in 1..Len(name) : name[k] = "."

\* every link of the root is a file link (a hash, a name with a period) to a
\* node without links
LeafFileDag ==
    \A i \in 1..Len(dag.R) :
        /\ dag.R[i].hash \in Hashes
        /\ HasPeriod(dag.R[i].name)
        /\ dag[dag.R[i].hash] = <<>>

ReachableHashes ==
    LET fromR == { dag.R[i].hash : i \in 1..Len(dag.R) }
        fromA == IF "A" \in fromR THEN { dag.A[i].hash : i \in 1..Len(dag.A) } ELSE {}
    IN  ({"R"} \cup fromR \cup fromA) \ {None}

\* C2: every collected (hash, name) pair has a hash, a non-empty name and a
\* period in the name, so a link without a period is never collected; and a
\* dag/get request was sent for the hash of every link with a hash that the
\* traversal has passed, whatever its name: once the traversal is over, for
\* every hash reachable from the root.
C2_CollectedAndRecursed ==
    op = "load" =>
        /\ \A i \in 1..Len(all_files) :
              /\ all_files[i][1] # None
              /\ all_files[i][2] # <<>>
              /\ HasPeriod(all_files[i][2])
        /\ \A f \in 1..Len(stack) : \A j \in 1..(stack[f].idx - 1) :
              stack[f].links[j].hash # None => stack[f].links[j].hash \in requested
        /\ stack = <<>> => ReachableHashes \subseteq requested

C2_Witness ==
    /\ op = "load" /\ stack = <<>>
    /\ dag.R = <<[hash |-> "A", name |-> N_d]>>
    /\ dag.A = <<[hash |-> "B", name |-> N_gx]>>
    /\ {"A", "B"} \subseteq requested
    /\ all_files = << <<"B", N_gx>> >>

\* the trace of a fetch whose every attempt met a connection failure
ExhaustTrace == [i \in 1..(2 * max_retries) |-> IF i % 2 = 1 THEN "conn" ELSE "sleep"]
OnlyConn(tr) == \A i \in 1..Len(tr) : tr[i] \in {"conn", "sleep"}

\* C3: a fetch (daemon check, get_dag_get, IPFSFileDataLoader.load) that has
\* met nothing but connection failures is still running until it has made
\* max_retries attempts, each followed by one sleep of retry_delay, and then
\* ends with its terminal error.
C3_ExactRetries ==
    (trace # <<>> /\ OnlyConn(trace)) =>
        /\ Len(trace) = 2 * attempt
        /\ \A i \in 1..Len(trace) : trace[i] = ExhaustTrace[i]
        /\ slept = attempt * retry_delay
        /\ fst = "running" => attempt < max_retries
        /\ fst # "running" =>
              /\ fst = "exhausted" /\ attempt = max_retries /\ trace = ExhaustTrace
              /\ op # "load" => (pc = "raised" /\ err # "none")

C3_Witness ==
    /\ op = "dagget" /\ pc = "raised" /\ err = "dag_exhausted"
    /\ trace = ExhaustTrace /\ slept = max_retries * retry_delay

\* a response with a non-success status
FailingStatus(e) == e \notin {"conn", "sleep"} /\ ~Ok(e)

\* C4: a response with a non-success status is the last event of its fetch,
\* and the fetch has raised: no further attempt, no sleep.
C4_StatusRaisesAtOnce ==
    \A i \in 1..Len(trace) :
        FailingStatus(trace[i]) => (i = Len(trace) /\ fst = "raised")

\* the names of the files of all_files from position i on that were not skipped
RECURSIVE KeptNames(_)
KeptNames(i) ==
    IF i > Len(all_files) \/ i >= fidx THEN <<>>
    ELSE (IF i \in skipped THEN <<>> ELSE <<all_files[i][2]>>) \o KeptNames(i + 1)

\* C5: a directory load does not raise because a fetch for one file of the
\* directory failed, and it returns the entries of the files that loaded in
\* their order in all_files.
C5_FileFailureSkipped ==
    op = "load" =>
        /\ (pc = "raised" /\ err \in {"dag_status", "dag_exhausted"} /\ Len(stack) >= 2) =>
              LET caller == stack[Len(stack) - 1]
              IN  ~( HasPeriod(caller.links[caller.idx].name) )
        /\ pc \in {"cat", "done"} =>
              /\ Len(results) = Len(KeptNames(1))
              /\ \A i \in 1..Len(results) : results[i].docs # <<>> =>
                    results[i].docs[1].source = KeptNames(1)[i]

\* C6 as stated: the reader of every one of the four words the string contains
C6_Original ==
    (op = "select" /\ pc # "select") =>
        /\ Contains(arg, S_pdf) => reader = "pdf_reader"
        /\ Contains(arg, S_csv) => reader = "csv_reader"
        /\ Contains(arg, S_json) => reader = "json_reader"
        /\ Contains(arg, S_text) => reader = "txt_reader"
        /\ (~Contains(arg, S_pdf) /\ ~Contains(arg, S_csv) /\ ~Contains(arg, S_json)
              /\ ~Contains(arg, S_text)) => pc = "raised"

\* C6: select_reader returns the reader of the first of "pdf", "csv", "json",
\* "text", in this order, that the MIME string contains, and raises the
\* unsupported-type error when it contains none (image/png).
C6_FirstMatch ==
    (op = "select" /\ pc # "select") =>
        LET pdf == Contains(arg, S_pdf)
            csv == Contains(arg, S_csv)
            json == Contains(arg, S_json)
            text == Contains(arg, S_text)
        IN  /\ pdf => reader = "pdf_reader"
            /\ (~pdf /\ csv) => reader = "csv_reader"
            /\ (~pdf /\ ~csv /\ json) => reader = "json_reader"
            /\ (~pdf /\ ~csv /\ ~json /\ text) => reader = "txt_reader"
            /\ (pdf \/ csv \/ json \/ text) => (pc = "done" /\ err = "none")
            /\ (~pdf /\ ~csv /\ ~json /\ ~text) => (pc = "raised" /\ err = "unsupported")
            /\ arg = M_png => pc = "raised"

C6_Witness ==
    op = "select" /\ pc = "done" /\ arg = M_csv /\ reader = "csv_reader"

\* C7: a get_vectorstore_from_ipfs on a directory of other than two links
\* ends at once, with the assertion error when the server answered the
\* dag/get: no cat request is sent, no temporary file is created and no
\* vector store is constructed.
C7_AssertBeforeWork ==
    (op = "vs" /\ vop = "get" /\ Len(store[vcid]) # 2) =>
        /\ pc = "idle"
        /\ err # "none"
        /\ allok => err = "assert"
        /\ downloads = 0 /\ tmpmade = {} /\ vsOut = NoStore

C7_Witness ==
    /\ op = "vs" /\ vop = "get" /\ Len(store[vcid]) = 3
    /\ err = "assert" /\ downloads = 0 /\ disk = {}

\* C8: a get of the cid the last send returned, every response having a
\* success status, returns a store with the vector count, the
\* index_to_docstore_id and the document identifiers of the store sent, the
\* index link being the index file and the docstore link the docstore file.
C8_RoundTrip ==
    (op = "vs" /\ vop = "get" /\ pc = "idle" /\ sent # 0 /\ vcid = sent /\ allok) =>
        /\ err = "none"
        /\ index_hash = write_index(vsIn)
        /\ docstore_hash = pickle_dump(vsIn)
        /\ vsOut.ntotal = vsIn.ntotal
        /\ vsOut.i2d = vsIn.i2d
        /\ vsOut.docs = vsIn.docs

\* C9: no temporary file is on the disk when no transfer is running.
C9_NoTempLeft ==
    (op = "vs" /\ pc = "idle") => disk = {}

\* links of node n to hash h, links to h in the structure, link paths from
\* the root to h
LinksTo(n, h) == Cardinality({ i \in 1..Len(dag[n]) : dag[n][i].hash = h })
LinkCount(h) == LinksTo("R", h) + LinksTo("A", h) + LinksTo("B", h)
Paths(h) ==
    IF h = "A" THEN LinksTo("R", "A")
    ELSE IF h = "B" THEN LinksTo("R", "B") + LinksTo("R", "A") * LinksTo("A", "B")
    ELSE 1

\* C10 as stated: visits of a hash are at most the links pointing to it
C10_Original ==
    op = "load" => \A h \in Hashes \ {"R"} : visits[h] <= LinkCount(h)

\* C10: during one recursive_dag_get, for every hash other than the root the
\* calls of the helper for that hash are at most the link paths from the
\* root to it.
C10_VisitsAtMostPaths ==
    op = "load" => \A h \in Hashes \ {"R"} : visits[h] <= Paths(h)

C10_Witness ==
    /\ op = "load" /\ stack = <<>>
    /\ LinkCount("B") = 1 /\ Paths("B") = 2 /\ visits["B"] = 2


\* the (hash, name) pairs of the file links below hash h, in depth-first
\* order: link by link in the order of the node, the pairs below a link
\* before the pair of the link itself
RECURSIVE PostOrder(_), PostOrderFrom(_, _)
PostOrderFrom(links, i) ==
    IF i > Len(links) THEN <<>>
    ELSE LET l == links[i]
             below == IF l.hash # None THEN PostOrder(l.hash) ELSE <<>>
             own == IF l.hash # None /\ l.name # <<>> /\ HasPeriod(l.name)
                    THEN << <<l.hash, l.name>> >> ELSE <<>>
         IN  below \o own \o PostOrderFrom(links, i + 1)
PostOrder(h) == PostOrderFrom(dag[h], 1)

IsPrefix(a, b) == Len(a) <= Len(b) /\ SubSeq(b, 1, Len(a)) = a

\* C11: the file list grows along the depth-first order of the structure
\* (siblings in the order of the links, the entries below a link before the
\* link's own entry) and is that order once the traversal is over; when every
\* file loads, the results of load are the entries of the files in this order.
C11_DepthFirstOrder ==
    op = "load" =>
        /\ IsPrefix(all_files, PostOrder("R"))
        /\ stack = <<>> => all_files = PostOrder("R")
        /\ (pc = "done" /\ skipped = {}) =>
              /\ Len(results) = Len(PostOrder("R"))
              /\ \A i \in 1..Len(results) : \A j \in 1..Len(results[i].docs) :
                    /\ results[i].docs[j].ipfs_hash = PostOrder("R")[i][1]
                    /\ results[i].docs[j].source = PostOrder("R")[i][2]

C11_Witness ==
    /\ op = "load" /\ pc = "done" /\ skipped = {}
    /\ dag.R = <<[hash |-> "A", name |-> N_ad], [hash |-> "B", name |-> N_fx]>>
    /\ dag.A = <<[hash |-> "B", name |-> N_gx]>>
    /\ all_files = << <<"B", N_gx>>, <<"A", N_ad>>, <<"B", N_fx>> >>
    /\ Len(results) = 3 /\ results[2].docs[1].source = N_ad


\* C12: a directory loader constructed in hosted mode sends no request to the
\* local daemon: every request made for it, those of the file loader inside
\* load too, goes to the Infura endpoint and carries the credentials; a
\* loader constructed in local mode sends every request to the local daemon.
C12_SelectedEndpoint ==
    ((op \in {"load", "dagget"} \/ (op = "check" /\ cls = "dir")) /\ url # "none") =>
        /\ url = (IF use_infura THEN infura_base_url ELSE base_url)
        /\ auth = use_infura

\* the HTTP requests of the fetch in the trace: every entry but the sleeps
Requests(tr) == Cardinality({ i \in 1..Len(tr) : tr[i] # "sleep" })

\* the operation is over: it has returned or raised
Finished == pc \in {"done", "raised"}

\* C13: over every link structure of the server (finite and acyclic), and
\* whatever the server answers to each request, a directory load eventually
\* finishes, returning a result list or raising, and so does each single
\* fetch; no fetch sends more than max_retries requests.
C13_LoadFinishes ==
    /\ [](Requests(trace) <= max_retries)
    /\ (op \in {"load", "dagget", "fileload", "check"}) ~> Finished

\* a load over one link finishes after its file fetch has used up all of
\* its max_retries attempts, on failing statuses and connection failures
C13_Witness ==
    /\ op = "load" /\ pc = "done" /\ skipped = {1} /\ results = <<>>
    /\ fst = "exhausted" /\ Requests(trace) = max_retries
    /\ \E i \in 1..Len(trace) : trace[i] = "conn"
    /\ \E i \in 1..Len(trace) : trace[i] = "500"

====
